---- MODULE Spec2Model ----
(***************************************************************************)
(* Game environment classification (src/analysis/game_environment.py):     *)
(* the metrics registry lookup, the divergence detector, the tier          *)
(* classifier and the slate aggregator; with them the odds parser          *)
(* (src/extract/odds_api.py), the slate builder's line-combination pass    *)
(* (src/analysis/slate_builder.py), the dashboard's demo slate and the     *)
(* pipeline runner's run record (src/pipeline/run.py).                     *)
(*                                                                         *)
(* Numbers: every float of the program is an integer number of hundredths  *)
(* (6.0 is 600, 52.0 % is 5200, a PDO of 101.5 is 10150).                  *)
(* Optional values: None is <<>>, a present value v is <<v>>.              *)
(* Team names and mapping keys: sequences of one-character strings, so     *)
(* that Python's case-sensitive substring test is computed, not assumed.   *)
(* Formatted text (rationale, divergence detail): a sequence of tokens,    *)
(* one per word of literal text and one per interpolated value.            *)
(***************************************************************************)
EXTENDS Integers, Sequences, FiniteSets, TLC

----------------------------------------------------------------------------
(* Optional values *)

None == <<>>

Some(v) == <<v>>

Val(o) == o[1]

----------------------------------------------------------------------------
(* Thresholds, in hundredths *)

HIGH_TOTAL_THRESHOLD == 600

MODERATE_TOTAL_THRESHOLD == 550

STRONG_HDCF_PCT == 5200

WEAK_HDCF_PCT == 4700

HIGH_PDO == 10150

LOW_PDO == 9850

DIVERGENCE_TOTAL_THRESHOLD == 300

DIVERGENCE_HDCF_THRESHOLD == 4700

NEUTRAL_HDCF == 5000

TIER_DEFAULT_RANK == 99

----------------------------------------------------------------------------
(* GameEnvironment *)

CHALK == "chalk"

LEVERAGE == "leverage"

CONTRARIAN == "contrarian"

AVOID == "avoid"

GameEnvironment == {CHALK, LEVERAGE, CONTRARIAN, AVOID}

----------------------------------------------------------------------------
(* Text: tokens of an f-string *)

\* one word of literal text
Lit(w) == [k |-> "lit", s |-> w, n |-> 0, cs |-> <<>>]

\* "{x}": repr of a float, every digit kept
Repr(x) == [k |-> "repr", s |-> "", n |-> x, cs |-> <<>>]

\* a float rounded to one decimal: hundredths to the nearest multiple of 10.
\* Exactly representable halves (.25, .75) round to the even tenth.
Round1(x) ==
    LET q == x \div 10
        r == x % 10
    IN  IF r < 5 THEN q * 10
        ELSE IF r > 5 THEN (q + 1) * 10
        ELSE IF q % 2 = 0 THEN q * 10 ELSE (q + 1) * 10

\* "{x:.1f}"
F1(x) == [k |-> "f1", s |-> "", n |-> Round1(x), cs |-> <<>>]

\* "{entry.home_team}": the name, character by character
Name(cs) == [k |-> "name", s |-> "", n |-> 0, cs |-> cs]

\* a run of literal words
W(ws) == [i \in DOMAIN ws |-> Lit(ws[i])]

\* "; ".join(flags)
RECURSIVE Join(_)
Join(flags) ==
    IF flags = <<>> THEN <<>>
    ELSE IF Len(flags) = 1 THEN flags[1]
    ELSE flags[1] \o W(<<";">>) \o Join(Tail(flags))

\* a in b, for Python strings
IsSubstr(a, b) ==
    \E i \in 0..(Len(b) - Len(a)) : SubSeq(b, i + 1, i + Len(a)) = a

----------------------------------------------------------------------------
(* Data model *)

GameOdds(event_id, home_team, away_team, total, home_implied, away_implied) ==
    [event_id |-> event_id, home_team |-> home_team, away_team |-> away_team,
     commence_time |-> None, home_ml |-> -150, away_ml |-> 130,
     home_spread |-> Some(-150), total |-> total,
     home_implied_total |-> home_implied, away_implied_total |-> away_implied]

TeamShotQuality(abbrev, hdcf_pct, pdo) ==
    [team_abbrev |-> abbrev, xgf_pct |-> Some(5000), hdcf_pct |-> hdcf_pct,
     hdcf_per_60 |-> None, hdca_per_60 |-> None, pdo |-> pdo]

\* the dataclass defaults of GameSlateEntry with the fields classify_game passes
GameSlateEntry(odds) ==
    [home_team |-> odds.home_team, away_team |-> odds.away_team,
     commence_time |-> odds.commence_time, total |-> odds.total,
     home_implied_total |-> odds.home_implied_total,
     away_implied_total |-> odds.away_implied_total,
     home_ml |-> odds.home_ml, away_ml |-> odds.away_ml,
     home_spread |-> odds.home_spread,
     home_hdcf_pct |-> None, home_xgf_pct |-> None, home_hdcf_per_60 |-> None,
     home_hdca_per_60 |-> None, home_pdo |-> None,
     away_hdcf_pct |-> None, away_xgf_pct |-> None, away_hdcf_per_60 |-> None,
     away_hdca_per_60 |-> None, away_pdo |-> None,
     environment |-> AVOID, environment_reason |-> <<>>,
     divergence_flag |-> FALSE, divergence_detail |-> <<>>,
     home_lines |-> None, away_lines |-> None]

----------------------------------------------------------------------------
(* Divergence detector *)

OverpricingMessage(team, implied, hdcf) ==
    <<Name(team)>> \o W(<<":">>) \o <<F1(implied)>>
    \o W(<<"implied", "total", "but", "only">>) \o <<F1(hdcf)>>
    \o W(<<"%", "HDCF", "-", "market", "overpricing", "offense">>)

PdoMessage(team, pdo) ==
    <<Name(team)>> \o W(<<":", "PDO", "at">>) \o <<F1(pdo)>>
    \o W(<<"-", "running", "hot,", "regression", "risk">>)

\* slip: the implied total compared with > instead of >=
OverpricedSide_StrictImplied(quality, implied) ==
    /\ quality # None
    /\ Val(quality).hdcf_pct # None
    /\ implied > DIVERGENCE_TOTAL_THRESHOLD
    /\ Val(Val(quality).hdcf_pct) < DIVERGENCE_HDCF_THRESHOLD

\* the condition of the offense check of one side
OverpricedSide(quality, implied) ==
    /\ quality # None
    /\ Val(quality).hdcf_pct # None
    /\ implied >= DIVERGENCE_TOTAL_THRESHOLD
    /\ Val(Val(quality).hdcf_pct) < DIVERGENCE_HDCF_THRESHOLD

\* slip: the rule made symmetric, a cold side (PDO below LOW_PDO) flagged too
RunningHot_BothTails(quality) ==
    /\ quality # None
    /\ Val(quality).pdo # None
    /\ \/ Val(Val(quality).pdo) > HIGH_PDO
       \/ Val(Val(quality).pdo) < LOW_PDO

\* the condition of the luck check of one side
RunningHot(quality) ==
    /\ quality # None
    /\ Val(quality).pdo # None
    /\ Val(Val(quality).pdo) > HIGH_PDO

\* slip: the checks grouped by side, home offense, home luck, away offense,
\* away luck
DivergenceFlags_BySide(entry, home_quality, away_quality) ==
    (IF OverpricedSide(home_quality, entry.home_implied_total)
     THEN <<OverpricingMessage(entry.home_team, entry.home_implied_total,
                               Val(Val(home_quality).hdcf_pct))>>
     ELSE <<>>)
    \o
    (IF RunningHot(home_quality)
     THEN <<PdoMessage(entry.home_team, Val(Val(home_quality).pdo))>>
     ELSE <<>>)
    \o
    (IF OverpricedSide(away_quality, entry.away_implied_total)
     THEN <<OverpricingMessage(entry.away_team, entry.away_implied_total,
                               Val(Val(away_quality).hdcf_pct))>>
     ELSE <<>>)
    \o
    (IF RunningHot(away_quality)
     THEN <<PdoMessage(entry.away_team, Val(Val(away_quality).pdo))>>
     ELSE <<>>)

\* the flags list of _check_divergence, in append order
DivergenceFlags(entry, home_quality, away_quality) ==
    (IF OverpricedSide(home_quality, entry.home_implied_total)
     THEN <<OverpricingMessage(entry.home_team, entry.home_implied_total,
                               Val(Val(home_quality).hdcf_pct))>>
     ELSE <<>>)
    \o
    (IF OverpricedSide(away_quality, entry.away_implied_total)
     THEN <<OverpricingMessage(entry.away_team, entry.away_implied_total,
                               Val(Val(away_quality).hdcf_pct))>>
     ELSE <<>>)
    \o
    (IF RunningHot(home_quality)
     THEN <<PdoMessage(entry.home_team, Val(Val(home_quality).pdo))>>
     ELSE <<>>)
    \o
    (IF RunningHot(away_quality)
     THEN <<PdoMessage(entry.away_team, Val(Val(away_quality).pdo))>>
     ELSE <<>>)

\* slip: the detail is written for any fired rule, the flag only for an
\* overpricing message
check_divergence_FlagOnOverpricingOnly(entry, home_quality, away_quality) ==
    LET flags == DivergenceFlags(entry, home_quality, away_quality)
        overpriced == \E i \in DOMAIN flags :
                          \E j \in DOMAIN flags[i] : flags[i][j] = Lit("overpricing")
    IN  IF flags # <<>>
        THEN [entry EXCEPT !.divergence_flag = overpriced,
                           !.divergence_detail = Join(flags)]
        ELSE entry

check_divergence(entry, home_quality, away_quality) ==
    LET flags == DivergenceFlags(entry, home_quality, away_quality)
    IN  IF flags # <<>>
        THEN [entry EXCEPT !.divergence_flag = TRUE,
                           !.divergence_detail = Join(flags)]
        ELSE entry

----------------------------------------------------------------------------
(* Tier classifier *)

SetTier(entry, tier, reason) ==
    [entry EXCEPT !.environment = tier, !.environment_reason = reason]

\* slip: the thresholds compared with > instead of >=
ClassifyOnTotal_StrictThresholds(entry) ==
    LET total == entry.total
    IN  IF total > HIGH_TOTAL_THRESHOLD
        THEN SetTier(entry, CHALK,
                 W(<<"High", "total", "(">>) \o <<Repr(total)>>
                 \o W(<<")", "-", "no", "shot", "quality", "data", "to",
                        "differentiate", "further">>))
        ELSE IF total > MODERATE_TOTAL_THRESHOLD
        THEN SetTier(entry, LEVERAGE,
                 W(<<"Moderate", "total", "(">>) \o <<Repr(total)>>
                 \o W(<<")", "-", "no", "shot", "quality", "data",
                        "available">>))
        ELSE SetTier(entry, CONTRARIAN,
                 W(<<"Low", "total", "(">>) \o <<Repr(total)>> \o W(<<")">>))

\* slip: the moderate rationale written like the low one, without the note
\* on missing data
ClassifyOnTotal_ModerateBare(entry) ==
    LET total == entry.total
    IN  IF total >= HIGH_TOTAL_THRESHOLD
        THEN SetTier(entry, CHALK,
                 W(<<"High", "total", "(">>) \o <<Repr(total)>>
                 \o W(<<")", "-", "no", "shot", "quality", "data", "to",
                        "differentiate", "further">>))
        ELSE IF total >= MODERATE_TOTAL_THRESHOLD
        THEN SetTier(entry, LEVERAGE,
                 W(<<"Moderate", "total", "(">>) \o <<Repr(total)>> \o W(<<")">>))
        ELSE SetTier(entry, CONTRARIAN,
                 W(<<"Low", "total", "(">>) \o <<Repr(total)>> \o W(<<")">>))

\* the branch taken when has_quality_data is false
ClassifyOnTotal(entry) ==
    LET total == entry.total
    IN  IF total >= HIGH_TOTAL_THRESHOLD
        THEN SetTier(entry, CHALK,
                 W(<<"High", "total", "(">>) \o <<Repr(total)>>
                 \o W(<<")", "-", "no", "shot", "quality", "data", "to",
                        "differentiate", "further">>))
        ELSE IF total >= MODERATE_TOTAL_THRESHOLD
        THEN SetTier(entry, LEVERAGE,
                 W(<<"Moderate", "total", "(">>) \o <<Repr(total)>>
                 \o W(<<")", "-", "no", "shot", "quality", "data",
                        "available">>))
        ELSE SetTier(entry, CONTRARIAN,
                 W(<<"Low", "total", "(">>) \o <<Repr(total)>> \o W(<<")">>))

\* slip: the format spec left out, the percentages printed in full
BothHdcfText_Unrounded(home_hdcf, away_hdcf) ==
    W(<<"(", "home", "HDCF%">>) \o <<Repr(home_hdcf)>>
    \o W(<<",", "away", "HDCF%">>) \o <<Repr(away_hdcf)>> \o W(<<")">>)

\* "(home HDCF% {home_hdcf:.1f}, away HDCF% {away_hdcf:.1f})"
BothHdcfText(home_hdcf, away_hdcf) ==
    W(<<"(", "home", "HDCF%">>) \o <<F1(home_hdcf)>>
    \o W(<<",", "away", "HDCF%">>) \o <<F1(away_hdcf)>> \o W(<<")">>)

\* "Total {total} with {team} dominating shot quality (HDCF% a vs b). ..."
DominatingText(total, team, strong_hdcf, weak_hdcf, side) ==
    W(<<"Total">>) \o <<Repr(total)>> \o W(<<"with">>) \o <<Name(team)>>
    \o W(<<"dominating", "shot", "quality", "(", "HDCF%">>)
    \o <<F1(strong_hdcf)>> \o W(<<"vs">>) \o <<F1(weak_hdcf)>>
    \o W(<<").", side, "stacks", "are", "the", "play", "-", "the",
           "quality", "edge", "is", "real.">>)

\* slip: a missing value coerced to zero
HdcfOrNeutral_Zero(q) ==
    IF Val(q).hdcf_pct # None THEN Val(Val(q).hdcf_pct) ELSE 0

\* hdcf_pct if it is not None, else 50.0
HdcfOrNeutral(q) ==
    IF Val(q).hdcf_pct # None THEN Val(Val(q).hdcf_pct) ELSE NEUTRAL_HDCF

\* "High total ({total}) with strong shot quality on both sides (...). ..."
BothStrongText(total, home_hdcf, away_hdcf) ==
    W(<<"High", "total", "(">>) \o <<Repr(total)>>
    \o W(<<")", "with", "strong", "shot", "quality", "on", "both", "sides">>)
    \o BothHdcfText(home_hdcf, away_hdcf)
    \o W(<<".", "Expect", "high", "ownership", "-", "core", "game", "for",
           "the", "slate.">>)

\* slip: the high-total fallback tested before the split, a high total is
\* CHALK whatever the split
ClassifyModerateTotal_HighFirst(entry, home_hdcf, away_hdcf) ==
    LET total == entry.total
        home_strong == home_hdcf >= STRONG_HDCF_PCT
        away_strong == away_hdcf >= STRONG_HDCF_PCT
        home_weak == home_hdcf < WEAK_HDCF_PCT
        away_weak == away_hdcf < WEAK_HDCF_PCT
    IN  IF total >= HIGH_TOTAL_THRESHOLD
        THEN SetTier(entry, CHALK,
                 W(<<"High", "total", "(">>) \o <<Repr(total)>>
                 \o W(<<")", "with", "moderate", "shot", "quality", "on",
                        "both", "sides">>)
                 \o BothHdcfText(home_hdcf, away_hdcf) \o W(<<".">>))
        ELSE IF home_strong /\ away_weak
        THEN SetTier(entry, LEVERAGE,
                 DominatingText(total, entry.home_team, home_hdcf, away_hdcf,
                                "Home"))
        ELSE IF away_strong /\ home_weak
        THEN SetTier(entry, LEVERAGE,
                 DominatingText(total, entry.away_team, away_hdcf, home_hdcf,
                                "Away"))
        ELSE SetTier(entry, LEVERAGE,
                 W(<<"Moderate", "total", "(">>) \o <<Repr(total)>>
                 \o W(<<")", "with", "balanced", "shot", "quality">>)
                 \o BothHdcfText(home_hdcf, away_hdcf) \o W(<<".">>))

\* slip: the high-total fallback compared with > instead of >=
ClassifyModerateTotal_StrictHigh(entry, home_hdcf, away_hdcf) ==
    LET total == entry.total
        home_strong == home_hdcf >= STRONG_HDCF_PCT
        away_strong == away_hdcf >= STRONG_HDCF_PCT
        home_weak == home_hdcf < WEAK_HDCF_PCT
        away_weak == away_hdcf < WEAK_HDCF_PCT
    IN  IF home_strong /\ away_weak
        THEN SetTier(entry, LEVERAGE,
                 DominatingText(total, entry.home_team, home_hdcf, away_hdcf,
                                "Home"))
        ELSE IF away_strong /\ home_weak
        THEN SetTier(entry, LEVERAGE,
                 DominatingText(total, entry.away_team, away_hdcf, home_hdcf,
                                "Away"))
        ELSE IF total > HIGH_TOTAL_THRESHOLD
        THEN SetTier(entry, CHALK,
                 W(<<"High", "total", "(">>) \o <<Repr(total)>>
                 \o W(<<")", "with", "moderate", "shot", "quality", "on",
                        "both", "sides">>)
                 \o BothHdcfText(home_hdcf, away_hdcf) \o W(<<".">>))
        ELSE SetTier(entry, LEVERAGE,
                 W(<<"Moderate", "total", "(">>) \o <<Repr(total)>>
                 \o W(<<")", "with", "balanced", "shot", "quality">>)
                 \o BothHdcfText(home_hdcf, away_hdcf) \o W(<<".">>))

\* slip: the high-total fallback left out, every non-split game is "balanced"
ClassifyModerateTotal_NoHighFallback(entry, home_hdcf, away_hdcf) ==
    LET total == entry.total
        home_strong == home_hdcf >= STRONG_HDCF_PCT
        away_strong == away_hdcf >= STRONG_HDCF_PCT
        home_weak == home_hdcf < WEAK_HDCF_PCT
        away_weak == away_hdcf < WEAK_HDCF_PCT
    IN  IF home_strong /\ away_weak
        THEN SetTier(entry, LEVERAGE,
                 DominatingText(total, entry.home_team, home_hdcf, away_hdcf,
                                "Home"))
        ELSE IF away_strong /\ home_weak
        THEN SetTier(entry, LEVERAGE,
                 DominatingText(total, entry.away_team, away_hdcf, home_hdcf,
                                "Away"))
        ELSE SetTier(entry, LEVERAGE,
                 W(<<"Moderate", "total", "(">>) \o <<Repr(total)>>
                 \o W(<<")", "with", "balanced", "shot", "quality">>)
                 \o BothHdcfText(home_hdcf, away_hdcf) \o W(<<".">>))

\* the block under "if total >= MODERATE_TOTAL_THRESHOLD", which always returns
ClassifyModerateTotal(entry, home_hdcf, away_hdcf) ==
    LET total == entry.total
        home_strong == home_hdcf >= STRONG_HDCF_PCT
        away_strong == away_hdcf >= STRONG_HDCF_PCT
        home_weak == home_hdcf < WEAK_HDCF_PCT
        away_weak == away_hdcf < WEAK_HDCF_PCT
    IN  IF home_strong /\ away_weak
        THEN SetTier(entry, LEVERAGE,
                 DominatingText(total, entry.home_team, home_hdcf, away_hdcf,
                                "Home"))
        ELSE IF away_strong /\ home_weak
        THEN SetTier(entry, LEVERAGE,
                 DominatingText(total, entry.away_team, away_hdcf, home_hdcf,
                                "Away"))
        ELSE IF total >= HIGH_TOTAL_THRESHOLD
        THEN SetTier(entry, CHALK,
                 W(<<"High", "total", "(">>) \o <<Repr(total)>>
                 \o W(<<")", "with", "moderate", "shot", "quality", "on",
                        "both", "sides">>)
                 \o BothHdcfText(home_hdcf, away_hdcf) \o W(<<".">>))
        ELSE SetTier(entry, LEVERAGE,
                 W(<<"Moderate", "total", "(">>) \o <<Repr(total)>>
                 \o W(<<")", "with", "balanced", "shot", "quality">>)
                 \o BothHdcfText(home_hdcf, away_hdcf) \o W(<<".">>))

\* slip: "and" for "or", the sneaky-upside branch asks for two strong sides
ClassifyLowTotal_BothStrong(entry, home_hdcf, away_hdcf) ==
    LET total == entry.total
        home_strong == home_hdcf >= STRONG_HDCF_PCT
        away_strong == away_hdcf >= STRONG_HDCF_PCT
    IN  IF entry.divergence_flag
        THEN SetTier(entry, CONTRARIAN,
                 W(<<"Divergence", "detected", "-", "Vegas", "total", "(">>)
                 \o <<Repr(total)>>
                 \o W(<<")", "disagrees", "with", "shot", "quality.", "Low",
                        "ownership", "expected.", "GPP-only", "play.">>))
        ELSE IF total < MODERATE_TOTAL_THRESHOLD
        THEN IF home_strong /\ away_strong
             THEN SetTier(entry, CONTRARIAN,
                      W(<<"Low", "total", "(">>) \o <<Repr(total)>>
                      \o W(<<")", "but",
                             IF home_strong THEN "home" ELSE "away",
                             "team", "has", "strong", "shot", "quality.",
                             "Low", "ownership", "=", "GPP", "upside.">>))
             ELSE SetTier(entry, AVOID,
                      W(<<"Low", "total", "(">>) \o <<Repr(total)>>
                      \o W(<<")", "with", "weak", "shot", "quality", "on",
                             "both", "sides">>)
                      \o BothHdcfText(home_hdcf, away_hdcf)
                      \o W(<<".", "No", "edge.">>))
        ELSE SetTier(entry, AVOID,
                 W(<<"No", "clear", "classification", "-", "insufficient",
                     "signal.">>))

\* slip: the else of the low-total block left out, the entry keeps its defaults
ClassifyLowTotal_NoElse(entry, home_hdcf, away_hdcf) ==
    LET total == entry.total
        home_strong == home_hdcf >= STRONG_HDCF_PCT
        away_strong == away_hdcf >= STRONG_HDCF_PCT
    IN  IF entry.divergence_flag
        THEN SetTier(entry, CONTRARIAN,
                 W(<<"Divergence", "detected", "-", "Vegas", "total", "(">>)
                 \o <<Repr(total)>>
                 \o W(<<")", "disagrees", "with", "shot", "quality.", "Low",
                        "ownership", "expected.", "GPP-only", "play.">>))
        ELSE IF home_strong \/ away_strong
        THEN SetTier(entry, CONTRARIAN,
                 W(<<"Low", "total", "(">>) \o <<Repr(total)>>
                 \o W(<<")", "but", IF home_strong THEN "home" ELSE "away",
                        "team", "has", "strong", "shot", "quality.",
                        "Low", "ownership", "=", "GPP", "upside.">>))
        ELSE entry

\* the statements after the moderate-total block: divergence trap, low total,
\* fallback
ClassifyLowTotal(entry, home_hdcf, away_hdcf) ==
    LET total == entry.total
        home_strong == home_hdcf >= STRONG_HDCF_PCT
        away_strong == away_hdcf >= STRONG_HDCF_PCT
    IN  IF entry.divergence_flag
        THEN SetTier(entry, CONTRARIAN,
                 W(<<"Divergence", "detected", "-", "Vegas", "total", "(">>)
                 \o <<Repr(total)>>
                 \o W(<<")", "disagrees", "with", "shot", "quality.", "Low",
                        "ownership", "expected.", "GPP-only", "play.">>))
        ELSE IF total < MODERATE_TOTAL_THRESHOLD
        THEN IF home_strong \/ away_strong
             THEN SetTier(entry, CONTRARIAN,
                      W(<<"Low", "total", "(">>) \o <<Repr(total)>>
                      \o W(<<")", "but",
                             IF home_strong THEN "home" ELSE "away",
                             "team", "has", "strong", "shot", "quality.",
                             "Low", "ownership", "=", "GPP", "upside.">>))
             ELSE SetTier(entry, AVOID,
                      W(<<"Low", "total", "(">>) \o <<Repr(total)>>
                      \o W(<<")", "with", "weak", "shot", "quality", "on",
                             "both", "sides">>)
                      \o BothHdcfText(home_hdcf, away_hdcf)
                      \o W(<<".", "No", "edge.">>))
        ELSE SetTier(entry, AVOID,
                 W(<<"No", "clear", "classification", "-", "insufficient",
                     "signal.">>))

\* slip: the divergence trap tested first, before the total
ClassifyOnQuality_DivergenceFirst(entry, home_quality, away_quality) ==
    LET total == entry.total
        home_hdcf == HdcfOrNeutral(home_quality)
        away_hdcf == HdcfOrNeutral(away_quality)
        home_strong == home_hdcf >= STRONG_HDCF_PCT
        away_strong == away_hdcf >= STRONG_HDCF_PCT
    IN  IF entry.divergence_flag
        THEN ClassifyLowTotal(entry, home_hdcf, away_hdcf)
        ELSE IF total >= HIGH_TOTAL_THRESHOLD /\ home_strong /\ away_strong
        THEN SetTier(entry, CHALK, BothStrongText(total, home_hdcf, away_hdcf))
        ELSE IF total >= MODERATE_TOTAL_THRESHOLD
        THEN ClassifyModerateTotal(entry, home_hdcf, away_hdcf)
        ELSE ClassifyLowTotal(entry, home_hdcf, away_hdcf)

\* slip: the moderate threshold compared with > instead of >=
ClassifyOnQuality_StrictModerate(entry, home_quality, away_quality) ==
    LET total == entry.total
        home_hdcf == HdcfOrNeutral(home_quality)
        away_hdcf == HdcfOrNeutral(away_quality)
        home_strong == home_hdcf >= STRONG_HDCF_PCT
        away_strong == away_hdcf >= STRONG_HDCF_PCT
    IN  IF total >= HIGH_TOTAL_THRESHOLD /\ home_strong /\ away_strong
        THEN SetTier(entry, CHALK, BothStrongText(total, home_hdcf, away_hdcf))
        ELSE IF total > MODERATE_TOTAL_THRESHOLD
        THEN ClassifyModerateTotal(entry, home_hdcf, away_hdcf)
        ELSE ClassifyLowTotal(entry, home_hdcf, away_hdcf)

\* the branches taken when both quality records are present
ClassifyOnQuality(entry, home_quality, away_quality) ==
    LET total == entry.total
        home_hdcf == HdcfOrNeutral(home_quality)
        away_hdcf == HdcfOrNeutral(away_quality)
        home_strong == home_hdcf >= STRONG_HDCF_PCT
        away_strong == away_hdcf >= STRONG_HDCF_PCT
    IN  IF total >= HIGH_TOTAL_THRESHOLD /\ home_strong /\ away_strong
        THEN SetTier(entry, CHALK, BothStrongText(total, home_hdcf, away_hdcf))
        ELSE IF total >= MODERATE_TOTAL_THRESHOLD
        THEN ClassifyModerateTotal(entry, home_hdcf, away_hdcf)
        ELSE ClassifyLowTotal(entry, home_hdcf, away_hdcf)

\* slip: an absent record stood in for by a record without values, and the
\* quality rules applied
classify_environment_AbsentAsNeutral(entry, home_quality, away_quality) ==
    LET blank == Some(TeamShotQuality("", None, None))
        has_quality_data == home_quality # None \/ away_quality # None
    IN  IF ~has_quality_data
        THEN ClassifyOnTotal(entry)
        ELSE ClassifyOnQuality(entry,
                 IF home_quality = None THEN blank ELSE home_quality,
                 IF away_quality = None THEN blank ELSE away_quality)

classify_environment(entry, home_quality, away_quality) ==
    LET has_quality_data == home_quality # None /\ away_quality # None
    IN  IF ~has_quality_data
        THEN ClassifyOnTotal(entry)
        ELSE ClassifyOnQuality(entry, home_quality, away_quality)

\* the shot quality fields copied onto the entry
AttachHome(entry, q) ==
    IF q = None THEN entry
    ELSE [entry EXCEPT !.home_hdcf_pct = Val(q).hdcf_pct,
                       !.home_xgf_pct = Val(q).xgf_pct,
                       !.home_hdcf_per_60 = Val(q).hdcf_per_60,
                       !.home_hdca_per_60 = Val(q).hdca_per_60,
                       !.home_pdo = Val(q).pdo]

AttachAway(entry, q) ==
    IF q = None THEN entry
    ELSE [entry EXCEPT !.away_hdcf_pct = Val(q).hdcf_pct,
                       !.away_xgf_pct = Val(q).xgf_pct,
                       !.away_hdcf_per_60 = Val(q).hdcf_per_60,
                       !.away_hdca_per_60 = Val(q).hdca_per_60,
                       !.away_pdo = Val(q).pdo]

\* slip: the tier assigned before the divergence check has run
classify_game_TierFirst(odds, home_quality, away_quality) ==
    LET created == GameSlateEntry(odds)
        attached == AttachAway(AttachHome(created, home_quality), away_quality)
        tiered == classify_environment(attached, home_quality, away_quality)
    IN  check_divergence(tiered, home_quality, away_quality)

classify_game(odds, home_quality, away_quality) ==
    LET created == GameSlateEntry(odds)
        attached == AttachAway(AttachHome(created, home_quality), away_quality)
        flagged == check_divergence(attached, home_quality, away_quality)
    IN  classify_environment(flagged, home_quality, away_quality)

----------------------------------------------------------------------------
(* Metrics registry: shot_quality is a dict, modelled as the sequence of    *)
(* its (key, value) items in iteration order, keys distinct.                *)

Keys(shot_quality) == {shot_quality[i][1] : i \in DOMAIN shot_quality}

\* shot_quality[team_name], for a key that is present
Lookup(shot_quality, key) ==
    shot_quality[CHOOSE i \in DOMAIN shot_quality : shot_quality[i][1] = key][2]

\* the for loop over shot_quality.items(), from item i on
RECURSIVE ScanItems(_, _, _)
ScanItems(team_name, shot_quality, i) ==
    IF i > Len(shot_quality) THEN None
    ELSE IF \/ IsSubstr(shot_quality[i][1], team_name)
            \/ IsSubstr(team_name, shot_quality[i][1])
         THEN Some(shot_quality[i][2])
         ELSE ScanItems(team_name, shot_quality, i + 1)

\* slip: the direct match left out, only the substring scan runs
find_team_quality_ScanOnly(team_name, shot_quality) ==
    ScanItems(team_name, shot_quality, 1)

find_team_quality(team_name, shot_quality) ==
    IF team_name \in Keys(shot_quality)
    THEN Some(Lookup(shot_quality, team_name))
    ELSE ScanItems(team_name, shot_quality, 1)

----------------------------------------------------------------------------
(* Slate aggregator *)

tier_order(environment) ==
    CASE environment = CHALK -> 0
      [] environment = LEVERAGE -> 1
      [] environment = CONTRARIAN -> 2
      [] environment = AVOID -> 3
      [] OTHER -> TIER_DEFAULT_RANK

\* slip: the total not negated, lower totals first
SortKey_TotalAscending(g) == <<tier_order(g.environment), g.total>>

\* key=lambda g: (tier_order.get(g.environment, 99), -g.total)
SortKey(g) == <<tier_order(g.environment), -g.total>>

\* tuple comparison a < b
KeyLess(a, b) == a[1] < b[1] \/ (a[1] = b[1] /\ a[2] < b[2])

\* slip: an unstable sort, an element goes before the placed elements of
\* equal key
RECURSIVE InsertByKey_Unstable(_, _, _)
InsertByKey_Unstable(sorted, x, keyOf) ==
    IF sorted = <<>> THEN <<x>>
    ELSE IF ~KeyLess(keyOf[Head(sorted)], keyOf[x])
         THEN <<x>> \o sorted
         ELSE <<Head(sorted)>> \o InsertByKey_Unstable(Tail(sorted), x, keyOf)

\* list.sort is stable: an element goes after every element already placed
\* whose key is not greater than its own
RECURSIVE InsertByKey(_, _, _)
InsertByKey(sorted, x, keyOf) ==
    IF sorted = <<>> THEN <<x>>
    ELSE IF KeyLess(keyOf[x], keyOf[Head(sorted)])
         THEN <<x>> \o sorted
         ELSE <<Head(sorted)>> \o InsertByKey(Tail(sorted), x, keyOf)

\* the order list.sort gives to positions 1..n of a list with these keys
RECURSIVE ListSort(_, _)
ListSort(keyOf, n) ==
    IF n = 0 THEN <<>>
    ELSE InsertByKey(ListSort(keyOf, n - 1), n, keyOf)

\* slip: the away lookup made with the home team's name
ClassifyAll_HomeLookupTwice(odds_list, shot_quality) ==
    [i \in DOMAIN odds_list |->
        classify_game(odds_list[i],
                      find_team_quality(odds_list[i].home_team, shot_quality),
                      find_team_quality(odds_list[i].home_team, shot_quality))]

\* the games list before the sort: one classify_game per quote
ClassifyAll(odds_list, shot_quality) ==
    [i \in DOMAIN odds_list |->
        classify_game(odds_list[i],
                      find_team_quality(odds_list[i].home_team, shot_quality),
                      find_team_quality(odds_list[i].away_team, shot_quality))]

\* build_slate_breakdown: the sorted games and, for each position, the index
\* of the quote its entry object was created for
build_slate_breakdown(odds_list, shot_quality) ==
    LET games == ClassifyAll(odds_list, shot_quality)
        keyOf == [i \in DOMAIN games |-> SortKey(games[i])]
        order == ListSort(keyOf, Len(games))
    IN  [games |-> [p \in DOMAIN order |-> games[order[p]]], origin |-> order]

----------------------------------------------------------------------------
(* Inputs *)

MaxGames == 3

MaxKeys == 2

CAR == <<"C", "A", "R">>

NYR == <<"N", "Y", "R">>

Carolina == <<"C", "a", "r", "o", "l", "i", "n", "a">>

CarolinaHurricanes ==
    Carolina \o <<" ", "H", "u", "r", "r", "i", "c", "a", "n", "e", "s">>

NewYork == <<"N", "e", "w", " ", "Y", "o", "r", "k">>

NewYorkRangers == NewYork \o <<" ", "R", "a", "n", "g", "e", "r", "s">>

\* team identifiers an odds quote may carry
TeamNames == {CarolinaHurricanes, NewYorkRangers, Carolina, CAR}

\* keys the metrics mapping may carry
KeyNames == {CAR, Carolina, CarolinaHurricanes, NYR, NewYork, NewYorkRangers}

TotalValues == {500, 550, 575, 600, 650}

ImpliedValues == {250, 300}

HdcfValues == {4400, 4696, 4700, 5000, 5200, 5400}

PdoValues == {9700, 10150, 10300}

Optional(S) == {None} \cup {Some(v) : v \in S}

QualityInputs ==
    Optional({TeamShotQuality("TST", h, p) :
                  h \in Optional(HdcfValues), p \in Optional(PdoValues)})

OddsInputs ==
    {GameOdds("test", CarolinaHurricanes, NewYorkRangers, t, hi, ai) :
         t \in TotalValues, hi \in ImpliedValues, ai \in ImpliedValues}

\* the record the provider files under a key
QualityOf(key) ==
    CASE key = CAR -> TeamShotQuality("CAR", Some(5400), Some(10000))
      [] key = Carolina -> TeamShotQuality("Carolina", Some(4400), Some(10300))
      [] key = CarolinaHurricanes -> TeamShotQuality("CAR-full", Some(5200), None)
      [] key = NYR -> TeamShotQuality("NYR", Some(5000), Some(9700))
      [] key = NewYork -> TeamShotQuality("NewYork", None, Some(10000))
      [] OTHER -> TeamShotQuality("NYR-full", Some(4600), None)

\* sequences of at most n distinct keys
RECURSIVE KeySeqs(_)
KeySeqs(n) ==
    IF n = 0 THEN {<<>>}
    ELSE KeySeqs(n - 1) \cup
         {Append(ks, k) : ks \in {x \in KeySeqs(n - 1) : Len(x) = n - 1},
                          k \in KeyNames}

DistinctKeySeqs(n) ==
    {ks \in KeySeqs(n) : \A i, j \in DOMAIN ks : ks[i] = ks[j] => i = j}

MappingInputs ==
    {[i \in DOMAIN ks |-> <<ks[i], QualityOf(ks[i])>>] : ks \in DistinctKeySeqs(MaxKeys)}

QuoteInputs ==
    {GameOdds("ev", pair[1], pair[2], t, 300, t - 300) :
         pair \in {<<CarolinaHurricanes, NewYorkRangers>>,
                   <<NewYorkRangers, Carolina>>},
         t \in {500, 575, 600}}

RECURSIVE QuoteSeqs(_)
QuoteSeqs(n) ==
    IF n = 0 THEN {<<>>}
    ELSE QuoteSeqs(n - 1) \cup
         {Append(qs, q) : qs \in {x \in QuoteSeqs(n - 1) : Len(x) = n - 1},
                          q \in QuoteInputs}

OddsListInputs == QuoteSeqs(MaxGames)

----------------------------------------------------------------------------
(* Odds parser (src/extract/odds_api.py)                                   *)
(* An event is the JSON object of the odds API: bookmakers, each with its  *)
(* markets, each with its outcomes.  An h2h outcome has no "point".        *)

Over == <<"O", "v", "e", "r">>

Under == <<"U", "n", "d", "e", "r">>

Outcome(name, price, point) == [name |-> name, price |-> price, point |-> point]

Market(key, outcomes) == [key |-> key, outcomes |-> outcomes]

Bookmaker(key, markets) == [key |-> key, markets |-> markets]

Event(home_team, away_team, bookmakers) ==
    [id |-> "abc123", home_team |-> home_team, away_team |-> away_team,
     commence_time |-> None, bookmakers |-> bookmakers]

\* {m["key"]: m for m in markets}.get(key): the last market filed under key
MarketsGet(markets, key) ==
    LET hits == {i \in DOMAIN markets : markets[i].key = key}
    IN  IF hits = {} THEN None
        ELSE Some(markets[CHOOSE i \in hits : \A j \in hits : j <= i])

\* the h2h loop, no break: the price of the last outcome named home_team
HomePrice(outcomes, home_team) ==
    LET hits == {i \in DOMAIN outcomes : outcomes[i].name = home_team}
    IN  IF hits = {} THEN None
        ELSE Some(outcomes[CHOOSE i \in hits : \A j \in hits : j <= i].price)

\* the elif branch: the last outcome named away_team and not home_team
AwayPrice(outcomes, home_team, away_team) ==
    LET hits == {i \in DOMAIN outcomes :
                    outcomes[i].name # home_team /\ outcomes[i].name = away_team}
    IN  IF hits = {} THEN None
        ELSE Some(outcomes[CHOOSE i \in hits : \A j \in hits : j <= i].price)

\* a loop with break: the point of the first outcome with that name
FirstPoint(outcomes, name) ==
    LET hits == {i \in DOMAIN outcomes : outcomes[i].name = name}
    IN  IF hits = {} THEN None
        ELSE outcomes[CHOOSE i \in hits : \A j \in hits : i <= j].point

\* slip: the spread treated as required
MarketsMissing_SpreadsRequired(h2h, spreads, totals) ==
    h2h = None \/ totals = None \/ spreads = None

\* h2h is None or totals is None
MarketsMissing(h2h, spreads, totals) == h2h = None \/ totals = None

\* American odds to the implied probability, a fraction <<numerator, denominator>>
ml_to_implied_prob(ml) ==
    IF ml < 0 THEN <<-ml, -ml + 100>> ELSE <<100, ml + 100>>

\* slip: the share taken from the raw probability, the vig left in
NoVig_Raw(prob, other) == prob

\* prob / (prob + other), as a fraction
NoVig(prob, other) ==
    <<prob[1] * other[2], prob[1] * other[2] + other[1] * prob[2]>>

\* the two probabilities are the same double: their sum, the quotient 0.5 and
\* the product with the total are then computed without rounding error
SameProb(home_prob, away_prob) ==
    home_prob[1] * away_prob[2] = away_prob[1] * home_prob[2]

\* round(total * share, 2), total in hundredths.  Off a tie the nearest
\* hundredth.  On a tie of the exact product: the even hundredth when the
\* double is exact; otherwise the quotient carries a rounding error of either
\* sign and the result is either neighbour.
Round2(total, share, exact) ==
    LET q == (total * share[1]) \div share[2]
        r == (total * share[1]) % share[2]
    IN  IF 2 * r < share[2] THEN {q}
        ELSE IF 2 * r > share[2] THEN {q + 1}
        ELSE IF exact THEN {IF q % 2 = 0 THEN q ELSE q + 1}
        ELSE {q, q + 1}

\* the pairs <<home_implied_total, away_implied_total>> the computation can give
ImpliedTotals(total, home_ml, away_ml) ==
    LET home_prob == ml_to_implied_prob(home_ml)
        away_prob == ml_to_implied_prob(away_ml)
        exact == SameProb(home_prob, away_prob)
    IN  Round2(total, NoVig(home_prob, away_prob), exact)
        \X Round2(total, NoVig(away_prob, home_prob), exact)

\* the results parse_game_odds can return for the event: None, or the dict
parse_game_odds(event) ==
    IF event.bookmakers = <<>> THEN {None}
    ELSE
    LET book == event.bookmakers[1]
        h2h == MarketsGet(book.markets, "h2h")
        spreads == MarketsGet(book.markets, "spreads")
        totals == MarketsGet(book.markets, "totals")
    IN  IF MarketsMissing(h2h, spreads, totals) THEN {None}
        ELSE
        LET home_ml == HomePrice(Val(h2h).outcomes, event.home_team)
            away_ml == AwayPrice(Val(h2h).outcomes, event.home_team,
                                 event.away_team)
            total == FirstPoint(Val(totals).outcomes, Over)
            home_spread ==
                IF spreads # None
                THEN FirstPoint(Val(spreads).outcomes, event.home_team)
                ELSE None
        IN  IF total = None \/ home_ml = None \/ away_ml = None THEN {None}
            ELSE {Some([event_id |-> event.id,
                        home_team |-> event.home_team,
                        away_team |-> event.away_team,
                        commence_time |-> event.commence_time,
                        home_ml |-> Val(home_ml), away_ml |-> Val(away_ml),
                        home_spread |-> home_spread, total |-> Val(total),
                        home_implied_total |-> it[1],
                        away_implied_total |-> it[2],
                        bookmaker |-> book.key]) :
                     it \in ImpliedTotals(Val(total), Val(home_ml), Val(away_ml))}

----------------------------------------------------------------------------
(* Slate builder (src/analysis/slate_builder.py)                           *)

\* a team's line combinations, known here by the team they belong to
TeamLines(team_abbrev) == [team_abbrev |-> team_abbrev]

\* ODDS_API_NAME_TO_ABBREV.get(team_name): full names only
resolve_team_abbrev(team_name) ==
    CASE team_name = CarolinaHurricanes -> Some(CAR)
      [] team_name = NewYorkRangers -> Some(NYR)
      [] OTHER -> None

\* the abbreviations _attach_line_combinations asks DailyFaceoff for
TeamAbbrevs(games) ==
    {Val(resolve_team_abbrev(n)) :
        n \in {m \in {games[p].home_team : p \in DOMAIN games}
                     \cup {games[p].away_team : p \in DOMAIN games} :
                  resolve_team_abbrev(m) # None}}

\* fetch_lines_for_teams: it raises, or returns the teams that succeeded
FetchOutcomes(team_abbrevs) ==
    {[raised |-> TRUE, lines |-> {}]}
    \cup {[raised |-> FALSE, lines |-> s] : s \in SUBSET team_abbrevs}

\* slip: a failed fetch answered with an empty slate
attach_line_combinations_EmptyOnRaise(games, fetch) ==
    IF TeamAbbrevs(games) = {} THEN games
    ELSE IF fetch.raised THEN <<>>
    ELSE [p \in DOMAIN games |->
             LET home_abbrev == resolve_team_abbrev(games[p].home_team)
                 away_abbrev == resolve_team_abbrev(games[p].away_team)
             IN  [games[p] EXCEPT
                    !.home_lines =
                        IF home_abbrev # None /\ Val(home_abbrev) \in fetch.lines
                        THEN Some(TeamLines(Val(home_abbrev))) ELSE @,
                    !.away_lines =
                        IF away_abbrev # None /\ Val(away_abbrev) \in fetch.lines
                        THEN Some(TeamLines(Val(away_abbrev))) ELSE @]]

\* the games after the annotation pass, fetch being the outcome of the fetch
attach_line_combinations(games, fetch) ==
    IF TeamAbbrevs(games) = {} THEN games
    ELSE IF fetch.raised THEN games
    ELSE [p \in DOMAIN games |->
             LET home_abbrev == resolve_team_abbrev(games[p].home_team)
                 away_abbrev == resolve_team_abbrev(games[p].away_team)
             IN  [games[p] EXCEPT
                    !.home_lines =
                        IF home_abbrev # None /\ Val(home_abbrev) \in fetch.lines
                        THEN Some(TeamLines(Val(home_abbrev))) ELSE @,
                    !.away_lines =
                        IF away_abbrev # None /\ Val(away_abbrev) \in fetch.lines
                        THEN Some(TeamLines(Val(away_abbrev))) ELSE @]]

\* steps 3 and 4 of build_tonight_slate, after the two fetches
build_tonight_slate(odds_list, shot_quality, fetch) ==
    IF odds_list = <<>> THEN <<>>
    ELSE attach_line_combinations(
             build_slate_breakdown(odds_list, shot_quality).games, fetch)

----------------------------------------------------------------------------
(* Demo slate (src/dashboard/slate_breakdown.py): four hard-coded entries  *)

demo_slate ==
  <<
    [home_team |-> <<"C", "o", "l", "o", "r", "a", "d", "o", " ", "A", "v",
        "a", "l", "a", "n", "c", "h", "e">>,
     away_team |-> <<"E", "d", "m", "o", "n", "t", "o", "n", " ", "O", "i",
         "l", "e", "r", "s">>,
     commence_time |-> None,
     total |-> 650,
     home_implied_total |-> 350,
     away_implied_total |-> 300,
     home_ml |-> -145,
     away_ml |-> 122,
     home_spread |-> Some(-150),
     home_hdcf_pct |-> Some(5520),
     home_xgf_pct |-> Some(5480),
     home_hdcf_per_60 |-> Some(1210),
     home_hdca_per_60 |-> Some(980),
     home_pdo |-> Some(10020),
     away_hdcf_pct |-> Some(5380),
     away_xgf_pct |-> Some(5210),
     away_hdcf_per_60 |-> Some(1150),
     away_hdca_per_60 |-> Some(1020),
     away_pdo |-> Some(10100),
     environment |-> CHALK,
     environment_reason |->
         W(<<"High", "total", "(6.5)", "with", "strong", "shot", "quality",
             "on", "both", "sides", "(home", "HDCF%", "55.2,", "away",
             "HDCF%", "53.8).", "Expect", "high", "ownership", "-", "core",
             "game", "for", "the", "slate.">>),
     divergence_flag |-> FALSE,
     divergence_detail |->
         <<>>,
     home_lines |-> Some(TeamLines(<<"C", "O", "L">>)),
     away_lines |-> Some(TeamLines(<<"E", "D", "M">>))],
    [home_team |-> <<"C", "a", "r", "o", "l", "i", "n", "a", " ", "H", "u",
        "r", "r", "i", "c", "a", "n", "e", "s">>,
     away_team |-> <<"P", "h", "i", "l", "a", "d", "e", "l", "p", "h", "i",
         "a", " ", "F", "l", "y", "e", "r", "s">>,
     commence_time |-> None,
     total |-> 550,
     home_implied_total |-> 320,
     away_implied_total |-> 230,
     home_ml |-> -190,
     away_ml |-> 158,
     home_spread |-> Some(-150),
     home_hdcf_pct |-> Some(5630),
     home_xgf_pct |-> Some(5510),
     home_hdcf_per_60 |-> Some(1280),
     home_hdca_per_60 |-> Some(890),
     home_pdo |-> Some(9950),
     away_hdcf_pct |-> Some(4420),
     away_xgf_pct |-> Some(4580),
     away_hdcf_per_60 |-> Some(850),
     away_hdca_per_60 |-> Some(1210),
     away_pdo |-> Some(10230),
     environment |-> LEVERAGE,
     environment_reason |->
         W(<<"Total", "5.5", "with", "Carolina", "dominating", "shot",
             "quality", "(HDCF%", "56.3", "vs", "44.2).", "Home", "stacks",
             "are", "the", "play", "-", "the", "quality", "edge", "is",
             "real.">>),
     divergence_flag |-> TRUE,
     divergence_detail |->
         W(<<"Philadelphia", "Flyers:", "2.3", "implied", "total", "but",
             "only", "44.2%", "HDCF", "-", "market", "overpricing",
             "offense;", "Philadelphia", "Flyers:", "PDO", "at", "102.3", "-",
             "running", "hot,", "regression", "risk">>),
     home_lines |-> Some(TeamLines(<<"C", "A", "R">>)),
     away_lines |-> Some(TeamLines(<<"P", "H", "I">>))],
    [home_team |-> <<"N", "a", "s", "h", "v", "i", "l", "l", "e", " ", "P",
        "r", "e", "d", "a", "t", "o", "r", "s">>,
     away_team |-> <<"C", "h", "i", "c", "a", "g", "o", " ", "B", "l", "a",
         "c", "k", "h", "a", "w", "k", "s">>,
     commence_time |-> None,
     total |-> 500,
     home_implied_total |-> 280,
     away_implied_total |-> 220,
     home_ml |-> -155,
     away_ml |-> 130,
     home_spread |-> Some(-150),
     home_hdcf_pct |-> Some(4810),
     home_xgf_pct |-> Some(4750),
     home_hdcf_per_60 |-> Some(920),
     home_hdca_per_60 |-> Some(1000),
     home_pdo |-> Some(9910),
     away_hdcf_pct |-> Some(4530),
     away_xgf_pct |-> Some(4420),
     away_hdcf_per_60 |-> Some(810),
     away_hdca_per_60 |-> Some(1120),
     away_pdo |-> Some(9800),
     environment |-> AVOID,
     environment_reason |->
         W(<<"Low", "total", "(5.0)", "with", "weak", "shot", "quality", "on",
             "both", "sides", "(home", "HDCF%", "48.1,", "away", "HDCF%",
             "45.3).", "No", "edge.">>),
     divergence_flag |-> FALSE,
     divergence_detail |->
         <<>>,
     home_lines |-> Some(TeamLines(<<"N", "S", "H">>)),
     away_lines |-> Some(TeamLines(<<"C", "H", "I">>))],
    [home_team |-> <<"T", "o", "r", "o", "n", "t", "o", " ", "M", "a", "p",
        "l", "e", " ", "L", "e", "a", "f", "s">>,
     away_team |-> <<"B", "o", "s", "t", "o", "n", " ", "B", "r", "u", "i",
         "n", "s">>,
     commence_time |-> None,
     total |-> 550,
     home_implied_total |-> 290,
     away_implied_total |-> 260,
     home_ml |-> -130,
     away_ml |-> 110,
     home_spread |-> Some(-150),
     home_hdcf_pct |-> Some(5120),
     home_xgf_pct |-> Some(5080),
     home_hdcf_per_60 |-> Some(1050),
     home_hdca_per_60 |-> Some(1000),
     home_pdo |-> Some(10080),
     away_hdcf_pct |-> Some(4910),
     away_xgf_pct |-> Some(4950),
     away_hdcf_per_60 |-> Some(1010),
     away_hdca_per_60 |-> Some(1030),
     away_pdo |-> Some(9920),
     environment |-> CONTRARIAN,
     environment_reason |->
         W(<<"Low", "total", "(5.5)", "but", "home", "team", "has", "strong",
             "shot", "quality.", "Low", "ownership", "=", "GPP",
             "upside.">>),
     divergence_flag |-> FALSE,
     divergence_detail |->
         <<>>,
     home_lines |-> Some(TeamLines(<<"T", "O", "R">>)),
     away_lines |-> Some(TeamLines(<<"B", "O", "S">>))]
  >>

----------------------------------------------------------------------------
(* Pipeline runner (src/pipeline/run.py)                                   *)

Stages == <<"run_extract", "run_transform", "run_load">>

\* the statement after a stage that completed
AfterStage(stage) ==
    CASE stage = "run_extract" -> "run_transform"
      [] stage = "run_transform" -> "run_load"
      [] OTHER -> "update_success"

\* what a call that updates the pipeline_runs record can do.  Postgres: the
\* row is written, or the engine is not an Engine and the call returns
\* without writing, or the call raises.  Snowflake: every exception is caught
\* inside the call.
UpdateOutcomes(backend) ==
    IF backend = "snowflake" THEN {"written", "skipped"}
    ELSE {"written", "skipped", "raised"}

\* slip: the handler's own failure allowed to replace the exception
Reraise_HandlerError(original, handler_error) ==
    IF handler_error # None THEN handler_error ELSE original

\* except Exception: pass, then a bare raise: the caller gets the exception
\* that entered the handler
Reraise(original, handler_error) == original

----------------------------------------------------------------------------
(* Inputs of the parser and of the slate builder *)

MaxTonightGames == 2

MoneylineValues == {-400, -395, -150, -125, 100, 130, 200}

PointValues == {500, 525, 650}

\* the h2h market: both prices, one price, or none
H2hMarkets(home_ml, away_ml) ==
    [both |-> Market("h2h", <<Outcome(CarolinaHurricanes, home_ml, None),
                               Outcome(NewYorkRangers, away_ml, None)>>),
     home |-> Market("h2h", <<Outcome(CarolinaHurricanes, home_ml, None)>>),
     away |-> Market("h2h", <<Outcome(NewYorkRangers, away_ml, None)>>)]

\* the totals market, with and without its Over outcome
TotalsMarkets(point) ==
    [both |-> Market("totals", <<Outcome(Over, -110, Some(point)),
                                  Outcome(Under, -110, Some(point))>>),
     under |-> Market("totals", <<Outcome(Under, -110, Some(point))>>)]

\* the spreads market, with and without the home outcome
SpreadsMarkets ==
    [both |-> Market("spreads", <<Outcome(CarolinaHurricanes, -120, Some(-150)),
                                   Outcome(NewYorkRangers, 100, Some(150))>>),
     away |-> Market("spreads", <<Outcome(NewYorkRangers, 100, Some(150))>>)]

\* the lists of markets a bookmaker may carry
MarketLists(home_ml, away_ml, point) ==
    LET h == H2hMarkets(home_ml, away_ml)
        t == TotalsMarkets(point)
        s == SpreadsMarkets
    IN  {<<h.both, s.both, t.both>>, <<h.both, t.both>>, <<h.both, s.away, t.both>>,
         <<h.both, s.both>>, <<s.both, t.both>>, <<>>,
         <<h.home, s.both, t.both>>, <<h.away, t.both>>,
         <<h.both, s.both, t.under>>}

EventInputs ==
    UNION {
        {Event(CarolinaHurricanes, NewYorkRangers, <<>>)}
        \cup {Event(CarolinaHurricanes, NewYorkRangers,
                    <<Bookmaker("draftkings", ms)>>) :
                 ms \in MarketLists(home_ml, away_ml, point)}
        \cup {Event(CarolinaHurricanes, NewYorkRangers,
                    <<Bookmaker("draftkings", ms),
                      Bookmaker("fanduel",
                                <<H2hMarkets(home_ml, away_ml).both,
                                  TotalsMarkets(point).both>>)>>) :
                 ms \in {<<H2hMarkets(home_ml, away_ml).both>>,
                         <<H2hMarkets(home_ml, away_ml).both,
                           TotalsMarkets(point).both>>}}
        : home_ml \in MoneylineValues, away_ml \in MoneylineValues,
          point \in PointValues}

\* what fetch_odds and fetch_shot_quality hand to build_tonight_slate
TonightOddsLists == QuoteSeqs(MaxTonightGames)

TonightMappings == {m \in MappingInputs : Len(m) <= 1}

BackendValues == {"postgres", "snowflake"}

----------------------------------------------------------------------------
(* State: the arguments and the result of the call in progress *)

VARIABLES pc, odds, home_quality, away_quality, entry,
          team_name, shot_quality, quality, odds_list, games, origin,
          event, parsed, lines_fetch,
          backend, run_id, status, completed, raised, propagated

vars == <<pc, odds, home_quality, away_quality, entry,
          team_name, shot_quality, quality, odds_list, games, origin,
          event, parsed, lines_fetch,
          backend, run_id, status, completed, raised, propagated>>

\* the frame of the classifier, the registry and the aggregator
classifier_vars == <<odds, home_quality, away_quality, entry, team_name, quality>>

slate_vars == <<shot_quality, odds_list, games, origin, lines_fetch>>

parser_vars == <<event, parsed>>

\* the frame of run_pipeline and the pipeline_runs record
pipeline_vars == <<backend, run_id, status, completed, raised, propagated>>

Init ==
    /\ pc = "idle"
    /\ odds = None
    /\ home_quality = None
    /\ away_quality = None
    /\ entry = None
    /\ team_name = <<>>
    /\ shot_quality = <<>>
    /\ quality = None
    /\ odds_list = <<>>
    /\ games = <<>>
    /\ origin = <<>>
    /\ event = None
    /\ parsed = None
    /\ lines_fetch = None
    /\ backend = "postgres"
    /\ run_id = None
    /\ status = "none"
    /\ completed = <<>>
    /\ raised = None
    /\ propagated = None

\* a caller classifies one game
ClassifyGame ==
    /\ pc = "idle"
    /\ \E o \in OddsInputs, hq \in QualityInputs, aq \in QualityInputs :
          /\ odds' = Some(o)
          /\ home_quality' = hq
          /\ away_quality' = aq
          /\ entry' = Some(classify_game(o, hq, aq))
    /\ pc' = "classify_game"
    /\ UNCHANGED <<team_name, shot_quality, quality, odds_list, games, origin>>
    /\ UNCHANGED <<lines_fetch, parser_vars, pipeline_vars>>

\* a registry lookup
FindTeamQuality ==
    /\ pc = "idle"
    /\ \E t \in TeamNames, m \in MappingInputs :
          /\ team_name' = t
          /\ shot_quality' = m
          /\ quality' = find_team_quality(t, m)
    /\ pc' = "find_team_quality"
    /\ UNCHANGED <<odds, home_quality, away_quality, entry, odds_list, games,
                   origin>>
    /\ UNCHANGED <<lines_fetch, parser_vars, pipeline_vars>>

\* a caller builds the breakdown of a slate
BuildSlateBreakdown ==
    /\ pc = "idle"
    /\ \E ol \in OddsListInputs, m \in MappingInputs :
          LET built == build_slate_breakdown(ol, m)
          IN  /\ odds_list' = ol
              /\ shot_quality' = m
              /\ games' = built.games
              /\ origin' = built.origin
    /\ pc' = "build_slate_breakdown"
    /\ UNCHANGED <<odds, home_quality, away_quality, entry, team_name,
                   quality>>
    /\ UNCHANGED <<lines_fetch, parser_vars, pipeline_vars>>

\* the odds client parses one event of the API response
ParseGameOdds ==
    /\ pc = "idle"
    /\ \E e \in EventInputs :
          /\ event' = Some(e)
          /\ parsed' \in parse_game_odds(e)
    /\ pc' = "parse_game_odds"
    /\ UNCHANGED <<classifier_vars, slate_vars, pipeline_vars>>

\* the dashboard builds tonight's slate: the odds and the metrics have been
\* fetched, the breakdown is built, then the line combinations are fetched
\* (when a team of the slate has an abbreviation) and attached
BuildTonightSlate ==
    /\ pc = "idle"
    /\ \E ol \in TonightOddsLists, m \in TonightMappings :
          LET built == build_slate_breakdown(ol, m)
              asked == ol # <<>> /\ TeamAbbrevs(built.games) # {}
          IN  /\ odds_list' = ol
              /\ shot_quality' = m
              /\ origin' = built.origin
              /\ IF asked
                 THEN \E f \in FetchOutcomes(TeamAbbrevs(built.games)) :
                         /\ lines_fetch' = Some(f)
                         /\ games' = build_tonight_slate(ol, m, f)
                 ELSE /\ lines_fetch' = None
                      /\ games' = build_tonight_slate(
                                      ol, m, [raised |-> FALSE, lines |-> {}])
    /\ pc' = "build_tonight_slate"
    /\ UNCHANGED <<classifier_vars, parser_vars, pipeline_vars>>

\* the dashboard without an API key shows the demo slate
DemoSlate ==
    /\ pc = "idle"
    /\ games' = demo_slate
    /\ pc' = "_demo_slate"
    /\ UNCHANGED <<classifier_vars, parser_vars, pipeline_vars, shot_quality,
                   odds_list, origin, lines_fetch>>

\* run_pipeline starts: the pipeline_runs record is created with status
\* 'running', or the creation fails and run_id is None
RunPipeline ==
    /\ pc = "idle"
    /\ \E b \in BackendValues, created \in BOOLEAN :
          /\ backend' = b
          /\ run_id' = IF created THEN Some(1) ELSE None
          /\ status' = IF created THEN "running" ELSE "none"
    /\ completed' = <<>>
    /\ raised' = None
    /\ propagated' = None
    /\ pc' = Stages[1]
    /\ UNCHANGED <<classifier_vars, slate_vars, parser_vars>>

\* the next stage of the try block completes, or raises
RunStage ==
    /\ \E i \in DOMAIN Stages : pc = Stages[i]
    /\ \/ /\ completed' = Append(completed, pc)
          /\ pc' = AfterStage(pc)
          /\ UNCHANGED raised
       \/ /\ raised' = Some(pc)
          /\ pc' = "except"
          /\ UNCHANGED completed
    /\ UNCHANGED <<classifier_vars, slate_vars, parser_vars, backend, run_id,
                   status, propagated>>

\* the end of the try block: the record, if there is one, is set to 'success'
UpdateSuccess ==
    /\ pc = "update_success"
    /\ IF run_id = None
       THEN /\ pc' = "returned"
            /\ UNCHANGED <<status, raised>>
       ELSE \E outcome \in UpdateOutcomes(backend) :
               /\ status' = IF outcome = "written" THEN "success" ELSE status
               /\ raised' = IF outcome = "raised" THEN Some(pc) ELSE raised
               /\ pc' = IF outcome = "raised" THEN "except" ELSE "returned"
    /\ UNCHANGED <<classifier_vars, slate_vars, parser_vars, backend, run_id,
                   completed, propagated>>

\* the except block: the record, if there is one, is set to 'failed', a
\* failure of that update is swallowed, and the exception is re-raised
Except ==
    /\ pc = "except"
    /\ IF run_id = None
       THEN /\ propagated' = Reraise(raised, None)
            /\ UNCHANGED status
       ELSE \E outcome \in UpdateOutcomes(backend) :
               /\ status' = IF outcome = "written" THEN "failed" ELSE status
               /\ propagated' =
                      Reraise(raised, IF outcome = "raised"
                                      THEN Some("update_failed") ELSE None)
    /\ pc' = "raised"
    /\ UNCHANGED <<classifier_vars, slate_vars, parser_vars, backend, run_id,
                   completed, raised>>

\* the statements of run_pipeline between its call and its end
PipelineSteps == {Stages[i] : i \in DOMAIN Stages} \cup {"update_success", "except"}

\* the call returns and its frame is dropped
Return ==
    /\ pc \notin {"idle"} \cup PipelineSteps
    /\ pc' = "idle"
    /\ odds' = None
    /\ home_quality' = None
    /\ away_quality' = None
    /\ entry' = None
    /\ team_name' = <<>>
    /\ shot_quality' = <<>>
    /\ quality' = None
    /\ odds_list' = <<>>
    /\ games' = <<>>
    /\ origin' = <<>>
    /\ event' = None
    /\ parsed' = None
    /\ lines_fetch' = None
    /\ backend' = "postgres"
    /\ run_id' = None
    /\ status' = "none"
    /\ completed' = <<>>
    /\ raised' = None
    /\ propagated' = None

Next ==
    \/ ClassifyGame
    \/ FindTeamQuality
    \/ BuildSlateBreakdown
    \/ ParseGameOdds
    \/ BuildTonightSlate
    \/ DemoSlate
    \/ RunPipeline
    \/ RunStage
    \/ UpdateSuccess
    \/ Except
    \/ Return

Spec == Init /\ [][Next]_vars

----------------------------------------------------------------------------
(* Helpers of the properties *)

\* the text renders to at least one character
NonEmptyText(t) ==
    \E i \in DOMAIN t : t[i].k \in {"repr", "f1"} \/ t[i].s # "" \/ t[i].cs # <<>>

\* the words ws occur in t, consecutively
HasWords(t, ws) ==
    \E i \in 0..(Len(t) - Len(ws)) : SubSeq(t, i + 1, i + Len(ws)) = W(ws)

Classified == pc = "classify_game"

Built == pc = "build_slate_breakdown"

Found == pc = "find_team_quality"

----------------------------------------------------------------------------
(* Properties *)

\* C1: every entry returned by classify_game carries one of the four tiers
\* and a rationale that is not the empty string.
C1_TierExhaustive ==
    Classified =>
        /\ Val(entry).environment \in GameEnvironment
        /\ NonEmptyText(Val(entry).environment_reason)

\* reached: the last branch of the classifier (low total, both records
\* present, no flag, no strong side) returned
C1_Witness ==
    /\ Classified
    /\ home_quality # None /\ away_quality # None
    /\ Val(odds).total < MODERATE_TOTAL_THRESHOLD
    /\ Val(entry).environment = AVOID
    /\ ~Val(entry).divergence_flag

\* C2: on every entry returned by classify_game the divergence flag is set
\* exactly when the divergence detail is a non-empty string.
C2_FlagIffDetail ==
    Classified =>
        (Val(entry).divergence_flag <=> NonEmptyText(Val(entry).divergence_detail))

\* reached: exactly one rule fired (a hot PDO on the away side)
C2_Witness ==
    /\ Classified
    /\ Val(entry).divergence_flag
    /\ Len(DivergenceFlags(Val(entry), home_quality, away_quality)) = 1
    /\ away_quality # None
    /\ Val(away_quality).pdo = Some(10300)

\* C3: the games of a breakdown are in non-decreasing tier rank and, between
\* neighbours of equal tier, non-increasing total.
C3_SortInvariant ==
    Built =>
        \A i \in 1..(Len(games) - 1) :
            /\ tier_order(games[i].environment) <= tier_order(games[i + 1].environment)
            /\ games[i].environment = games[i + 1].environment
                   => games[i].total >= games[i + 1].total

\* reached: the sort moved entries, on both keys
C3_Witness ==
    /\ Built
    /\ Len(games) = 3
    /\ origin # <<1, 2, 3>>
    /\ games[1].environment = games[2].environment
    /\ games[1].total > games[2].total
    /\ games[2].environment # games[3].environment

\* C4: two entries of a breakdown with the same tier and the same total are
\* in the order of their quotes in odds_list.
C4_StableSort ==
    Built =>
        \A i, j \in DOMAIN games :
            (/\ i < j
             /\ games[i].environment = games[j].environment
             /\ games[i].total = games[j].total)
                => origin[i] < origin[j]

\* reached: two different games tie on both keys and a third was moved
C4_Witness ==
    /\ Built
    /\ \E i, j \in DOMAIN games :
          /\ i < j
          /\ games[i].environment = games[j].environment
          /\ games[i].total = games[j].total
          /\ games[i].home_team # games[j].home_team
    /\ \E p \in DOMAIN origin : origin[p] # p

\* C6: with the mapping {"CAR": m1} the lookup of "Carolina Hurricanes"
\* returns m1.
C6_RegistryFallback ==
    (/\ Found
     /\ team_name = CarolinaHurricanes
     /\ Len(shot_quality) = 1
     /\ shot_quality[1][1] = CAR)
        => quality = Some(shot_quality[1][2])

\* the position of the first key, in iteration order, that is a substring
\* of the identifier or contains it; 0 when there is none
FirstPartialMatch ==
    LET hits == {i \in DOMAIN shot_quality :
                     \/ IsSubstr(shot_quality[i][1], team_name)
                     \/ IsSubstr(team_name, shot_quality[i][1])}
    IN  IF hits = {} THEN 0 ELSE CHOOSE i \in hits : \A j \in hits : i <= j

\* C7: the lookup returns the record of the identifier's own key when the
\* identifier is a key, whatever the other keys; otherwise the record of the
\* first key in iteration order that is a substring of the identifier or
\* contains it; otherwise None.
C7_TwoPhaseLookup ==
    Found =>
        IF \E i \in DOMAIN shot_quality : shot_quality[i][1] = team_name
        THEN \E i \in DOMAIN shot_quality :
                 /\ shot_quality[i][1] = team_name
                 /\ quality = Some(shot_quality[i][2])
        ELSE IF FirstPartialMatch # 0
        THEN quality = Some(shot_quality[FirstPartialMatch][2])
        ELSE quality = None

\* reached: the identifier is the second key and the first key is a
\* substring of it; the exact key's record came back
C7_Witness ==
    /\ Found
    /\ Len(shot_quality) = 2
    /\ shot_quality[2][1] = team_name
    /\ IsSubstr(shot_quality[1][1], team_name)
    /\ quality = Some(shot_quality[2][2])
    /\ quality # Some(shot_quality[1][2])

\* a team of average quality: HDCF% 50.0, no luck index
AverageQuality == Some(TeamShotQuality("TST", Some(NEUTRAL_HDCF), None))

OneSideAbsent ==
    /\ Classified
    /\ (home_quality = None) # (away_quality = None)

\* the tier of the same game with the absent side replaced by an average team
TierWithAverage ==
    classify_game(Val(odds),
                  IF home_quality = None THEN AverageQuality ELSE home_quality,
                  IF away_quality = None THEN AverageQuality ELSE away_quality
                 ).environment

\* C8 as stated: with exactly one side's record absent the tier is the tier
\* of the same game with the absent side replaced by an average team.
C8_AbsentAsAverage == OneSideAbsent => Val(entry).environment = TierWithAverage

\* C8 amended: with exactly one side's record absent, the tier is the tier of
\* the game with the absent side replaced by an average team when the total
\* is at least 5.5; below 5.5 the tier is CONTRARIAN whatever the present
\* side is.
C8_AbsentAsAverageFromModerate ==
    OneSideAbsent =>
        /\ Val(odds).total >= MODERATE_TOTAL_THRESHOLD
               => Val(entry).environment = TierWithAverage
        /\ Val(odds).total < MODERATE_TOTAL_THRESHOLD
               => Val(entry).environment = CONTRARIAN

\* reached: one side absent, the other strong, total 6.0, and both games CHALK
C8_Witness ==
    /\ OneSideAbsent
    /\ Val(odds).total = HIGH_TOTAL_THRESHOLD
    /\ away_quality = None
    /\ Val(home_quality).hdcf_pct = Some(5400)
    /\ Val(entry).environment = CHALK
    /\ TierWithAverage = CHALK

BothAbsent == Classified /\ home_quality = None /\ away_quality = None

\* C9: with both records absent the tier is CHALK from 6.0, LEVERAGE from 5.5
\* to below 6.0, CONTRARIAN below 5.5, and never AVOID.
C9_NoMetricsByTotal ==
    BothAbsent =>
        LET total == Val(odds).total
            tier == Val(entry).environment
        IN  /\ total >= 600 => tier = CHALK
            /\ (total >= 550 /\ total < 600) => tier = LEVERAGE
            /\ total < 550 => tier = CONTRARIAN
            /\ tier # AVOID

\* reached: both absent at the boundary total 5.5
C9_Witness ==
    /\ BothAbsent
    /\ Val(odds).total = 550
    /\ Val(entry).environment = LEVERAGE

\* the text interpolates x as "{x}"
StatesTotal(t, x) == \E i \in DOMAIN t : t[i] = Repr(x)

StatesNoQualityData(t) == HasWords(t, <<"no", "shot", "quality", "data">>)

\* C10 as stated: with both records absent the rationale states the total and
\* that quality data is absent, whatever the total.
C10_NoMetricsRationale ==
    BothAbsent =>
        /\ StatesTotal(Val(entry).environment_reason, Val(odds).total)
        /\ StatesNoQualityData(Val(entry).environment_reason)

\* C10 amended: with both records absent the rationale states the total; it
\* states that quality data is absent when the total is at least 5.5, and for
\* a total below 5.5 it is "Low total (<total>)" and nothing else.
C10_NoMetricsRationaleFromModerate ==
    BothAbsent =>
        LET total == Val(odds).total
            reason == Val(entry).environment_reason
        IN  /\ StatesTotal(reason, total)
            /\ total >= MODERATE_TOTAL_THRESHOLD => StatesNoQualityData(reason)
            /\ total < MODERATE_TOTAL_THRESHOLD
                   => reason = W(<<"Low", "total", "(">>) \o <<Repr(total)>>
                               \o W(<<")">>)

\* reached: both absent, a moderate total, the rationale with the note
C10_Witness ==
    /\ BothAbsent
    /\ Val(odds).total = 575
    /\ StatesNoQualityData(Val(entry).environment_reason)
    /\ StatesTotal(Val(entry).environment_reason, 575)

----------------------------------------------------------------------------
(* The rules of the tier classifier with both records present *)

BothPresent == Classified /\ home_quality # None /\ away_quality # None

\* a side's HDCF%, a missing value read as 50.0
PctOf(q) == IF Val(q).hdcf_pct = None THEN 5000 ELSE Val(Val(q).hdcf_pct)

\* the tokens ts occur in t, consecutively
HasTokens(t, ts) ==
    \E i \in 0..(Len(t) - Len(ts)) : SubSeq(t, i + 1, i + Len(ts)) = ts

\* C11: with both records present, total >= 6.0 and both HDCF% >= 52.0 the
\* tier is CHALK, whatever the divergence flag.
C11_BothStrongChalk ==
    (/\ BothPresent
     /\ Val(odds).total >= 600
     /\ PctOf(home_quality) >= 5200
     /\ PctOf(away_quality) >= 5200)
        => Val(entry).environment = CHALK

\* reached: both sides strong at a high total, the flag set by a hot PDO,
\* and the tier CHALK
C11_Witness ==
    /\ BothPresent
    /\ Val(odds).total >= 600
    /\ PctOf(home_quality) >= 5200
    /\ PctOf(away_quality) >= 5200
    /\ Val(entry).divergence_flag
    /\ Val(entry).environment = CHALK

HomeDominates == PctOf(home_quality) >= 5200 /\ PctOf(away_quality) < 4700

AwayDominates == PctOf(away_quality) >= 5200 /\ PctOf(home_quality) < 4700

\* C12: with both records present and total >= 5.5 (6.0 and more included),
\* one side at 52.0 or more and the other below 47.0, the tier is LEVERAGE
\* and the rationale names the strong side's team as dominating, with the
\* divergence flag set or clear.
C12_CleanSplitLeverage ==
    (/\ BothPresent
     /\ Val(odds).total >= 550
     /\ HomeDominates \/ AwayDominates)
        => /\ Val(entry).environment = LEVERAGE
           /\ HasTokens(Val(entry).environment_reason,
                        <<Name(IF HomeDominates THEN Val(odds).home_team
                                                ELSE Val(odds).away_team),
                          Lit("dominating")>>)

\* reached: a high total, the away side dominating, the home side weak with
\* an implied total of 3.0, so the flag is set, and the tier LEVERAGE
C12_Witness ==
    /\ BothPresent
    /\ Val(odds).total >= 600
    /\ AwayDominates
    /\ Val(entry).divergence_flag
    /\ Val(entry).environment = LEVERAGE

NoCleanSplit == ~HomeDominates /\ ~AwayDominates

BothStrong == PctOf(home_quality) >= 5200 /\ PctOf(away_quality) >= 5200

\* C13: with both records present, total >= 5.5, no clean strong/weak split
\* and not both sides strong at a total >= 6.0, the tier is CHALK from 6.0
\* and LEVERAGE with the "balanced" rationale below 6.0.
C13_NoSplitByTotal ==
    (/\ BothPresent
     /\ Val(odds).total >= 550
     /\ NoCleanSplit
     /\ ~(BothStrong /\ Val(odds).total >= 600))
        => IF Val(odds).total >= 600
           THEN Val(entry).environment = CHALK
           ELSE /\ Val(entry).environment = LEVERAGE
                /\ HasWords(Val(entry).environment_reason, <<"balanced">>)

\* reached: the boundary total 6.0, one side strong and the other neutral,
\* and the tier CHALK with the moderate-quality rationale
C13_Witness ==
    /\ BothPresent
    /\ Val(odds).total = 600
    /\ PctOf(home_quality) >= 5200
    /\ PctOf(away_quality) = 5000
    /\ Val(entry).environment = CHALK
    /\ HasWords(Val(entry).environment_reason, <<"moderate", "shot", "quality">>)

\* C14: with both records present and total < 5.5 the tier is CONTRARIAN when
\* the divergence flag is set, else CONTRARIAN when a side's HDCF% is 52.0 or
\* more, else AVOID; AVOID exactly when the flag is clear and no side is
\* strong.
C14_LowTotalTiers ==
    (BothPresent /\ Val(odds).total < 550)
        => LET strong == PctOf(home_quality) >= 5200 \/ PctOf(away_quality) >= 5200
               tier == Val(entry).environment
           IN  /\ tier = (IF Val(entry).divergence_flag THEN CONTRARIAN
                          ELSE IF strong THEN CONTRARIAN ELSE AVOID)
               /\ tier = AVOID <=> (~Val(entry).divergence_flag /\ ~strong)

\* reached: a low total, the flag clear, one side strong and the other not,
\* and the tier CONTRARIAN
C14_Witness ==
    /\ BothPresent
    /\ Val(odds).total < 550
    /\ ~Val(entry).divergence_flag
    /\ PctOf(home_quality) < 5200
    /\ PctOf(away_quality) >= 5200
    /\ Val(entry).environment = CONTRARIAN

\* C15: classify_game never returns the rationale of the defensive fallback
\* ("insufficient signal").
C15_FallbackUnreachable ==
    Classified =>
        ~HasWords(Val(entry).environment_reason, <<"insufficient", "signal.">>)

\* reached: the statement before the fallback returned, at the largest total
\* below 5.5 drawn, with the flag clear and no strong side
C15_Witness ==
    /\ BothPresent
    /\ Val(odds).total = 500
    /\ ~Val(entry).divergence_flag
    /\ PctOf(home_quality) = 4700
    /\ PctOf(away_quality) = 4700
    /\ HasWords(Val(entry).environment_reason, <<"No", "edge.">>)

----------------------------------------------------------------------------
(* The numbers of the rationale *)

\* the text shows x rounded to one decimal place, with one decimal
ShowsOneDecimal(t, x) ==
    \E i \in DOMAIN t :
        /\ t[i].k \in {"repr", "f1"}
        /\ t[i].n = Round1(x)
        /\ t[i].n % 10 = 0

\* the text interpolates x as "{x:.1f}"
StatesPct(t, x) == \E i \in DOMAIN t : t[i] = F1(x)

StatesNoPct(t) == \A i \in DOMAIN t : t[i].k # "f1"

\* C16 as stated: every rationale shows the total to one decimal place and,
\* when both records are present, an HDCF percentage to one decimal place.
C16_RationaleNumbers ==
    Classified =>
        LET reason == Val(entry).environment_reason
        IN  /\ ShowsOneDecimal(reason, Val(odds).total)
            /\ BothPresent =>
                   \/ ShowsOneDecimal(reason, PctOf(home_quality))
                   \/ ShowsOneDecimal(reason, PctOf(away_quality))

\* C16 amended: every rationale embeds the total as the repr of the float,
\* not rounded; both sides' HDCF percentages, each to one decimal place, are
\* embedded when both records are present and the total is at least 5.5 or
\* the tier is AVOID (both-strong, clean split, high-total fallback, balanced,
\* no edge); the no-metrics, divergence-trap and sneaky-upside rationales
\* embed no percentage.
C16_RationaleNumbersByBranch ==
    Classified =>
        LET reason == Val(entry).environment_reason
        IN  /\ StatesTotal(reason, Val(odds).total)
            /\ IF /\ BothPresent
                  /\ \/ Val(odds).total >= 550
                     \/ Val(entry).environment = AVOID
               THEN /\ StatesPct(reason, PctOf(home_quality))
                    /\ StatesPct(reason, PctOf(away_quality))
                    /\ ShowsOneDecimal(reason, PctOf(home_quality))
                    /\ ShowsOneDecimal(reason, PctOf(away_quality))
               ELSE StatesNoPct(reason)

\* reached: a clean split at total 5.75 with the weak side at 46.96 %, the
\* rationale showing 5.75 and 47.0
C16_Witness ==
    /\ BothPresent
    /\ Val(odds).total = 575
    /\ HomeDominates
    /\ PctOf(away_quality) = 4696
    /\ StatesTotal(Val(entry).environment_reason, 575)
    /\ \E i \in DOMAIN Val(entry).environment_reason :
           /\ Val(entry).environment_reason[i].k = "f1"
           /\ Val(entry).environment_reason[i].n = 4700

----------------------------------------------------------------------------
(* The rules of the divergence detector *)

\* the detail holds an offense-overpricing message of this team
HasOverpricingFor(t, team) ==
    \E i \in 1..(Len(t) - 3) :
        /\ t[i] = Name(team)
        /\ t[i + 1] = Lit(":")
        /\ t[i + 2].k = "f1"
        /\ t[i + 3] = Lit("implied")

\* the detail holds a running-hot message of this team
HasRunningHotFor(t, team) ==
    \E i \in 1..(Len(t) - 2) :
        /\ t[i] = Name(team)
        /\ t[i + 1] = Lit(":")
        /\ t[i + 2] = Lit("PDO")

\* the offense rule of a side, from the call's arguments
OffenseRuleFires(q, implied) ==
    /\ q # None
    /\ Val(q).hdcf_pct # None
    /\ implied >= 300
    /\ Val(Val(q).hdcf_pct) < 4700

\* the luck rule of a side, from the call's arguments
LuckRuleFires(q) ==
    /\ q # None
    /\ Val(q).pdo # None
    /\ Val(Val(q).pdo) > 10150

\* C17: a side's offense-overpricing message is in the detail exactly when
\* that side's record is present with an HDCF%, its implied total is 3.0 or
\* more and its HDCF% is below 47.0, whatever the other side's record is.
C17_OverpricingRule ==
    Classified =>
        /\ HasOverpricingFor(Val(entry).divergence_detail, Val(odds).home_team)
               <=> OffenseRuleFires(home_quality, Val(odds).home_implied_total)
        /\ HasOverpricingFor(Val(entry).divergence_detail, Val(odds).away_team)
               <=> OffenseRuleFires(away_quality, Val(odds).away_implied_total)

\* reached: the home side at the boundary implied total 3.0 with 46.96 %,
\* the away record absent, and the home message written
C17_Witness ==
    /\ Classified
    /\ away_quality = None
    /\ Val(odds).home_implied_total = 300
    /\ home_quality # None
    /\ Val(home_quality).hdcf_pct = Some(4696)
    /\ HasOverpricingFor(Val(entry).divergence_detail, Val(odds).home_team)
    /\ ~HasOverpricingFor(Val(entry).divergence_detail, Val(odds).away_team)

\* C18: a side's running-hot message is in the detail exactly when its PDO
\* is present and above 101.5; with no offense rule fired and no PDO above
\* 101.5 the flag stays clear, also for a PDO below 98.5.
C18_LuckRuleOneSided ==
    Classified =>
        /\ HasRunningHotFor(Val(entry).divergence_detail, Val(odds).home_team)
               <=> LuckRuleFires(home_quality)
        /\ HasRunningHotFor(Val(entry).divergence_detail, Val(odds).away_team)
               <=> LuckRuleFires(away_quality)
        /\ (/\ ~OffenseRuleFires(home_quality, Val(odds).home_implied_total)
            /\ ~OffenseRuleFires(away_quality, Val(odds).away_implied_total)
            /\ ~LuckRuleFires(home_quality)
            /\ ~LuckRuleFires(away_quality))
               => ~Val(entry).divergence_flag

\* reached: a cold home side (PDO 97.0), the away side at exactly 101.5, and
\* the flag clear
C18_Witness ==
    /\ BothPresent
    /\ Val(home_quality).pdo = Some(9700)
    /\ Val(away_quality).pdo = Some(10150)
    /\ ~Val(entry).divergence_flag
    /\ Val(entry).divergence_detail = <<>>

\* the positions where a message of the detail starts
MessageStarts(t) == {i \in DOMAIN t : i = 1 \/ t[i - 1] = Lit(";")}

\* the rule a message comes from, read off its first tokens
RuleOfMessage(t, i) ==
    <<IF t[i] = Name(Val(odds).home_team) THEN "home" ELSE "away",
      IF t[i + 2] = Lit("PDO") THEN "luck" ELSE "offense">>

\* the rules of the messages of the detail, in the order of the text
RulesInDetail(t) ==
    [k \in 1..Cardinality(MessageStarts(t)) |->
        RuleOfMessage(t, CHOOSE i \in MessageStarts(t) :
                             Cardinality({j \in MessageStarts(t) : j < i}) = k - 1)]

\* the rules that fire on the call's arguments, in the fixed order
RulesFired ==
    (IF OffenseRuleFires(home_quality, Val(odds).home_implied_total)
     THEN << <<"home", "offense">> >> ELSE <<>>)
    \o (IF OffenseRuleFires(away_quality, Val(odds).away_implied_total)
        THEN << <<"away", "offense">> >> ELSE <<>>)
    \o (IF LuckRuleFires(home_quality) THEN << <<"home", "luck">> >> ELSE <<>>)
    \o (IF LuckRuleFires(away_quality) THEN << <<"away", "luck">> >> ELSE <<>>)

\* C19: the detail is the "; "-joined messages of exactly the rules that
\* fired, one each, in the order home offense, away offense, home luck,
\* away luck.
C19_DetailOrder ==
    Classified => RulesInDetail(Val(entry).divergence_detail) = RulesFired

\* reached: all four rules fired
C19_Witness ==
    /\ Classified
    /\ Len(RulesFired) = 4
    /\ Cardinality(MessageStarts(Val(entry).divergence_detail)) = 4

\* C20: with both records present, total >= 6.0 and the divergence flag set,
\* the tier is CONTRARIAN.
C20_HighTotalDivergingContrarian ==
    (/\ BothPresent
     /\ Val(odds).total >= 600
     /\ Val(entry).divergence_flag)
        => Val(entry).environment = CONTRARIAN

----------------------------------------------------------------------------
(* The aggregator's entries, missing values, and the order of the two steps *)

\* C21: the breakdown has one entry per quote of odds_list, each the entry
\* classify_game returns for that quote with its two lookups, echoing the
\* quote's teams, total, implied totals, moneylines and spread.
C21_OneEntryPerQuote ==
    Built =>
        /\ Len(games) = Len(odds_list)
        /\ Len(origin) = Len(odds_list)
        /\ {origin[p] : p \in DOMAIN origin} = DOMAIN odds_list
        /\ \A p \in DOMAIN games :
               LET quote == odds_list[origin[p]]
               IN  /\ games[p] =
                          classify_game(quote,
                              find_team_quality(quote.home_team, shot_quality),
                              find_team_quality(quote.away_team, shot_quality))
                   /\ games[p].home_team = quote.home_team
                   /\ games[p].away_team = quote.away_team
                   /\ games[p].total = quote.total
                   /\ games[p].home_implied_total = quote.home_implied_total
                   /\ games[p].away_implied_total = quote.away_implied_total
                   /\ games[p].home_ml = quote.home_ml
                   /\ games[p].away_ml = quote.away_ml
                   /\ games[p].home_spread = quote.home_spread

\* reached: three quotes, three entries, the lookups of the two sides
\* differing for some entry
C21_Witness ==
    /\ Built
    /\ Len(odds_list) = 3
    /\ Len(games) = 3
    /\ \E p \in DOMAIN games :
           /\ games[p].home_hdcf_pct # None
           /\ games[p].away_hdcf_pct = None

\* a side whose record is present without an HDCF%
MissingPct(q) == q # None /\ Val(q).hdcf_pct = None

\* the record with 50.0 written in place of a missing HDCF%
WithNeutralPct(q) ==
    IF MissingPct(q) THEN Some([Val(q) EXCEPT !.hdcf_pct = Some(5000)]) ELSE q

\* C22: a present record without an HDCF% counts as 50.0: the tier and the
\* divergence flag are those of the same game with 50.0 written in.
C22_MissingPctIsNeutral ==
    (Classified /\ (MissingPct(home_quality) \/ MissingPct(away_quality)))
        => LET same == classify_game(Val(odds), WithNeutralPct(home_quality),
                                     WithNeutralPct(away_quality))
           IN  /\ Val(entry).environment = same.environment
               /\ Val(entry).divergence_flag = same.divergence_flag

\* reached: a high total, the home side strong, the away record without an
\* HDCF%, and the tier CHALK by the high-total fallback
C22_Witness ==
    /\ BothPresent
    /\ MissingPct(away_quality)
    /\ Val(home_quality).hdcf_pct = Some(5400)
    /\ Val(odds).total = 600
    /\ Val(entry).environment = CHALK

AnyRuleFires ==
    \/ OffenseRuleFires(home_quality, Val(odds).home_implied_total)
    \/ OffenseRuleFires(away_quality, Val(odds).away_implied_total)
    \/ LuckRuleFires(home_quality)
    \/ LuckRuleFires(away_quality)

\* C25: the tier step reads the flag of the same call: with both records
\* present, total < 5.5 and a divergence rule fired, the tier is CONTRARIAN
\* with the divergence rationale, never AVOID.
C25_FlagBeforeTier ==
    (BothPresent /\ Val(odds).total < 550 /\ AnyRuleFires)
        => /\ Val(entry).environment = CONTRARIAN
           /\ HasWords(Val(entry).environment_reason, <<"Divergence", "detected">>)

\* reached: a low total, no strong side, only the luck rule fired, and the
\* divergence rationale
C25_Witness ==
    /\ BothPresent
    /\ Val(odds).total < 550
    /\ PctOf(home_quality) = 5000
    /\ PctOf(away_quality) = 5000
    /\ LuckRuleFires(home_quality)
    /\ ~LuckRuleFires(away_quality)
    /\ Val(entry).environment = CONTRARIAN
    /\ HasWords(Val(entry).environment_reason, <<"Divergence", "detected">>)

\* C27: with exactly one record absent the tier is CHALK from 6.0, LEVERAGE
\* from 5.5 to below 6.0, CONTRARIAN below 5.5 and never AVOID, whatever the
\* present side's HDCF% and the flag; the flag is set exactly when a rule
\* fires on the present side.
C27_OneAbsentByTotal ==
    OneSideAbsent =>
        LET total == Val(odds).total
            tier == Val(entry).environment
        IN  /\ total >= 600 => tier = CHALK
            /\ (total >= 550 /\ total < 600) => tier = LEVERAGE
            /\ total < 550 => tier = CONTRARIAN
            /\ tier # AVOID
            /\ Val(entry).divergence_flag <=> AnyRuleFires

\* reached: the home record absent, the away side weak and overpriced, a
\* high total, the flag set and the tier CHALK
C27_Witness ==
    /\ OneSideAbsent
    /\ home_quality = None
    /\ OffenseRuleFires(away_quality, Val(odds).away_implied_total)
    /\ Val(odds).total = 650
    /\ Val(entry).divergence_flag
    /\ Val(entry).environment = CHALK

\* C28: CHALK only from 6.0; CHALK or LEVERAGE exactly from 5.5; CONTRARIAN
\* or AVOID exactly below 5.5.
C28_TierBoundedByTotal ==
    Classified =>
        LET total == Val(odds).total
            tier == Val(entry).environment
        IN  /\ tier = CHALK => total >= 600
            /\ tier \in {CHALK, LEVERAGE} <=> total >= 550
            /\ tier \in {CONTRARIAN, AVOID} <=> total < 550

\* reached: the boundary total 5.5 with both records present, both sides
\* weak and overpriced, and the tier LEVERAGE
C28_Witness ==
    /\ BothPresent
    /\ Val(odds).total = 550
    /\ Val(entry).divergence_flag
    /\ PctOf(home_quality) < 4700
    /\ PctOf(away_quality) < 4700
    /\ Val(entry).environment = LEVERAGE

----------------------------------------------------------------------------
(* The odds parser *)

Parsed == pc = "parse_game_odds"

\* the parser returned a dict
Accepted == Parsed /\ parsed # None

\* the home side has the higher no-vig win probability
HomeLikelier(r) ==
    LET hp == ml_to_implied_prob(r.home_ml)
        ap == ml_to_implied_prob(r.away_ml)
    IN  hp[1] * ap[2] > ap[1] * hp[2]

AwayLikelier(r) ==
    LET hp == ml_to_implied_prob(r.home_ml)
        ap == ml_to_implied_prob(r.away_ml)
    IN  ap[1] * hp[2] > hp[1] * ap[2]

\* C23 (as stated): for every accepted event the two implied totals sum
\* exactly to the game total, and the side with the higher no-vig win
\* probability has the larger implied total.
C23_ImpliedTotalsExact ==
    Accepted =>
        LET r == Val(parsed)
        IN  /\ r.home_implied_total + r.away_implied_total = r.total
            /\ HomeLikelier(r) => r.home_implied_total > r.away_implied_total
            /\ AwayLikelier(r) => r.away_implied_total > r.home_implied_total

\* C23 (amended): for every accepted event the two implied totals sum to the
\* game total to within 0.01, and the side with the higher no-vig win
\* probability has an implied total at least as large as the other side's.
C23_ImpliedTotalsWithinCent ==
    Accepted =>
        LET r == Val(parsed)
            sum == r.home_implied_total + r.away_implied_total
        IN  /\ sum - r.total \in {-1, 0, 1}
            /\ HomeLikelier(r) => r.home_implied_total >= r.away_implied_total
            /\ AwayLikelier(r) => r.away_implied_total >= r.home_implied_total

\* reached: even money on both sides and a total of 5.25: each share is
\* 2.625, each rounds to 2.62, and the sum is 5.24
C23_Witness ==
    /\ Accepted
    /\ Val(parsed).home_ml = 100
    /\ Val(parsed).away_ml = 100
    /\ Val(parsed).total = 525
    /\ Val(parsed).home_implied_total = 262
    /\ Val(parsed).away_implied_total = 262

\* the first bookmaker files a market under the key
HasMarket(e, key) ==
    /\ e.bookmakers # <<>>
    /\ \E i \in DOMAIN e.bookmakers[1].markets :
           e.bookmakers[1].markets[i].key = key

\* that market has an outcome with the name
HasOutcome(e, key, name) ==
    /\ e.bookmakers # <<>>
    /\ \E i \in DOMAIN e.bookmakers[1].markets :
           /\ e.bookmakers[1].markets[i].key = key
           /\ \E j \in DOMAIN e.bookmakers[1].markets[i].outcomes :
                  e.bookmakers[1].markets[i].outcomes[j].name = name

Incomplete(e) ==
    \/ e.bookmakers = <<>>
    \/ ~HasMarket(e, "h2h")
    \/ ~HasMarket(e, "totals")
    \/ ~HasOutcome(e, "totals", Over)
    \/ ~HasOutcome(e, "h2h", e.home_team)
    \/ ~HasOutcome(e, "h2h", e.away_team)

\* C24: parse_game_odds returns None for an incomplete event (no bookmakers,
\* the first bookmaker without h2h or totals, no Over outcome, no h2h price
\* for the home or the away team); an event complete but for its spreads
\* market is accepted, with home_spread None.
C24_IncompleteIsNone ==
    Parsed =>
        /\ Incomplete(Val(event)) => parsed = None
        /\ ~Incomplete(Val(event)) =>
               /\ parsed # None
               /\ ~HasMarket(Val(event), "spreads") =>
                      Val(parsed).home_spread = None

\* reached: the first bookmaker has no totals market, the second bookmaker
\* is complete, and the result is None
C24_Witness ==
    /\ Parsed
    /\ Len(Val(event).bookmakers) = 2
    /\ HasMarket(Val(event), "h2h")
    /\ ~HasMarket(Val(event), "totals")
    /\ parsed = None

----------------------------------------------------------------------------
(* The slate builder *)

Tonight == pc = "build_tonight_slate"

\* C26: after the line-combination pass every entry is the entry
\* build_slate_breakdown produced, at the same position, but for home_lines
\* and away_lines; when the fetch raises these stay None.
C26_LinesOnlyFrame ==
    Tonight =>
        LET built == build_slate_breakdown(odds_list, shot_quality).games
        IN  /\ DOMAIN games = DOMAIN built
            /\ \A p \in DOMAIN games \cap DOMAIN built :
                   [games[p] EXCEPT !.home_lines = None, !.away_lines = None]
                       = built[p]
            /\ (lines_fetch # None /\ Val(lines_fetch).raised) =>
                   \A p \in DOMAIN games :
                       /\ games[p].home_lines = None
                       /\ games[p].away_lines = None

\* reached: two games, the fetch returned the lines of one team only, and
\* an entry carries the lines of its home side and none for its away side
C26_Witness ==
    /\ Tonight
    /\ Len(games) = 2
    /\ lines_fetch # None
    /\ ~Val(lines_fetch).raised
    /\ Val(lines_fetch).lines = {CAR}
    /\ \E p \in DOMAIN games :
           /\ games[p].home_lines = Some(TeamLines(CAR))
           /\ games[p].away_lines = None

----------------------------------------------------------------------------
(* The demo slate *)

Demo == pc = "_demo_slate"

\* the odds quote an entry echoes
OddsOfEntry(g) ==
    [event_id |-> "demo", home_team |-> g.home_team, away_team |-> g.away_team,
     commence_time |-> g.commence_time, home_ml |-> g.home_ml,
     away_ml |-> g.away_ml, home_spread |-> g.home_spread, total |-> g.total,
     home_implied_total |-> g.home_implied_total,
     away_implied_total |-> g.away_implied_total]

\* the metrics records an entry carries
HomeMetrics(g) ==
    Some([team_abbrev |-> "home", xgf_pct |-> g.home_xgf_pct,
          hdcf_pct |-> g.home_hdcf_pct, hdcf_per_60 |-> g.home_hdcf_per_60,
          hdca_per_60 |-> g.home_hdca_per_60, pdo |-> g.home_pdo])

AwayMetrics(g) ==
    Some([team_abbrev |-> "away", xgf_pct |-> g.away_xgf_pct,
          hdcf_pct |-> g.away_hdcf_pct, hdcf_per_60 |-> g.away_hdcf_per_60,
          hdca_per_60 |-> g.away_hdca_per_60, pdo |-> g.away_pdo])

\* C29: every entry of the demo slate carries the tier and the divergence
\* flag classify_game assigns to its own total, implied totals, HDCF% and PDO.
C29_DemoMatchesRules ==
    Demo =>
        \A p \in DOMAIN games :
            LET ruled == classify_game(OddsOfEntry(games[p]),
                                       HomeMetrics(games[p]),
                                       AwayMetrics(games[p]))
            IN  /\ games[p].environment = ruled.environment
                /\ games[p].divergence_flag = ruled.divergence_flag

----------------------------------------------------------------------------
(* The pipeline runner *)

Created == run_id # None

StageNames == {Stages[i] : i \in DOMAIN Stages}

\* C30 (as stated): with a record created, it is 'success' only after the
\* three stages completed in order, 'failed' only if one of the three stages
\* raised, and after a failure the caller gets the original exception.
C30_RunRecord ==
    Created =>
        /\ status = "success" => completed = Stages
        /\ status = "failed" => (raised # None /\ Val(raised) \in StageNames)
        /\ pc = "raised" => (raised # None /\ propagated = raised)
        /\ pc = "returned" => raised = None

\* C30 (amended): with a record created, it is 'success' only after the
\* three stages completed in order, 'failed' only if one of the three stages
\* or the update that sets it to 'success' raised, and after a failure the
\* caller gets the original exception.
C30_RunRecordOrUpdate ==
    Created =>
        /\ status = "success" => completed = Stages
        /\ status = "failed" =>
               (raised # None /\ Val(raised) \in StageNames \cup {"update_success"})
        /\ pc = "raised" => (raised # None /\ propagated = raised)
        /\ pc = "returned" => raised = None

\* reached: the three stages completed, the update to 'success' raised, the
\* handler set the record to 'failed' and re-raised that exception
C30_Witness ==
    /\ Created
    /\ completed = Stages
    /\ raised = Some("update_success")
    /\ status = "failed"
    /\ pc = "raised"
    /\ propagated = raised

====
